---- MODULE Spec2Model ----
(***************************************************************************)
(* bcbc: per-disk MD5 fingerprint files, resumable listing, concurrent     *)
(* hashing workers and the merge of per-disk files into group files.       *)
(*                                                                         *)
(* Text is modelled at the level the code works at: a path, a line and a   *)
(* file's content are sequences of one-character strings, so that the      *)
(* formatting of a line ("%s:%x\n"), the scanner, strings.Split, NFC,      *)
(* ToSlash, the regular expressions and sort.Strings are computed rather   *)
(* than assumed.                                                           *)
(***************************************************************************)
EXTENDS Naturals, Sequences, FiniteSets, TLC

(***************************************************************************)
(* Characters.  "~" stands for U+0301 (combining acute accent) and "@" for *)
(* U+00E9 (the precomposed e-acute): NFC composes "e","~" into "@".        *)
(***************************************************************************)
LF == "\n"
Colon == ":"
Combining == "~"
Composed == "@"
Digits == {"0", "1", "2", "3", "4", "5", "6", "7", "8", "9"}
Upper == {"A", "B", "C"}
HexDigits == <<"0", "1", "2", "3", "4", "5", "6", "7", "8", "9", "a", "b", "c", "d", "e", "f">>

\* The characters of the model in ascending order of their first UTF-8 byte.
ByteOrder == <<LF, "#", "(", "*", "+", "-", ".", "/", "0", "1", "2", "3", "4", "5", "6", "7", "8", "9", ":", "A", "B", "C", "\\", "a", "b", "c", "d", "e", "f", "x", "y", "@", "~">>

Code(c) == CHOOSE i \in 1..Len(ByteOrder) : ByteOrder[i] = c

\* Go's string comparison (a < b): byte-wise, a proper prefix is smaller.
RECURSIVE StrLess(_, _)
StrLess(a, b) ==
    IF b = <<>> THEN FALSE
    ELSE IF a = <<>> THEN TRUE
    ELSE IF Head(a) = Head(b) THEN StrLess(Tail(a), Tail(b))
    ELSE Code(Head(a)) < Code(Head(b))

StrLeq(a, b) == a = b \/ StrLess(a, b)

RECURSIVE Concat(_)
Concat(ss) == IF ss = <<>> THEN <<>> ELSE Head(ss) \o Concat(Tail(ss))

Range(s) == {s[i] : i \in 1..Len(s)}

\* filepath.ToSlash: every Separator becomes "/".
ToSlash(s, sep) == [i \in 1..Len(s) |-> IF s[i] = sep THEN "/" ELSE s[i]]

\* norm.NFC.String, on the one composition the model's alphabet has.
RECURSIVE NFC(_)
NFC(s) ==
    IF s = <<>> THEN <<>>
    ELSE IF Len(s) >= 2 /\ s[1] = "e" /\ s[2] = Combining
         THEN <<Composed>> \o NFC(SubSeq(s, 3, Len(s)))
         ELSE <<Head(s)>> \o NFC(Tail(s))

\* strings.Split(line, sepChar): the pieces between the separators.
RECURSIVE SplitAcc(_, _, _)
SplitAcc(s, sepChar, cur) ==
    IF s = <<>> THEN <<cur>>
    ELSE IF Head(s) = sepChar THEN <<cur>> \o SplitAcc(Tail(s), sepChar, <<>>)
    ELSE SplitAcc(Tail(s), sepChar, Append(cur, Head(s)))

Split(s, sepChar) == SplitAcc(s, sepChar, <<>>)

\* bufio.Scanner with ScanLines over a file's content: the lines without
\* their newline; a last line without newline is returned if it is not empty.
ScanLines(content) ==
    LET pieces == Split(content, LF)
    IN  IF pieces[Len(pieces)] = <<>> THEN SubSeq(pieces, 1, Len(pieces) - 1) ELSE pieces

\* fmt.Fprintln(line): the line and a newline.
Println(line) == line \o <<LF>>

RECURSIVE WriteLines(_)
WriteLines(lines) == IF lines = <<>> THEN <<>> ELSE Println(Head(lines)) \o WriteLines(Tail(lines))

\* "%x" of a digest: two lower-case hex digits per byte.
RECURSIVE Hex(_)
Hex(bytes) ==
    IF bytes = <<>> THEN <<>>
    ELSE <<HexDigits[(Head(bytes) \div 16) + 1], HexDigits[(Head(bytes) % 16) + 1]>> \o Hex(Tail(bytes))

\* crypto/md5 is not computed: the hasher is a one-byte running digest that
\* depends on every byte written and on their order.
Md5New == 7

RECURSIVE Md5Write(_, _)
Md5Write(h, bytes) ==
    IF bytes = <<>> THEN h ELSE Md5Write((h * 5 + Head(bytes)) % 256, Tail(bytes))

Md5Sum(h) == <<h>>

(***************************************************************************)
(* Regular expressions, on the subset the filter rules of the model use:   *)
(* ".*" (matches every string), a literal without metacharacters (matches  *)
(* the strings that contain it) and texts that do not compile.             *)
(***************************************************************************)
RegexMeta == {".", "*", "(", "+", "\\"}

RegexCompile(text) ==
    IF text = <<".", "*">> THEN [ok |-> TRUE, any |-> TRUE, lit |-> <<>>]
    ELSE IF Range(text) \cap RegexMeta = {} THEN [ok |-> TRUE, any |-> FALSE, lit |-> text]
    ELSE [ok |-> FALSE, any |-> FALSE, lit |-> <<>>]

Contains(s, lit) ==
    \E i \in 0..(Len(s) - Len(lit)) : SubSeq(s, i + 1, i + Len(lit)) = lit

MatchString(re, s) == re.any \/ Contains(s, re.lit)

\* hashFilePattern "^([A-Z])\\d+$" on a file name of the output directory:
\* the sub-matches, <<>> when the name does not match.
HashFilePatternFind(fileName) ==
    IF /\ Len(fileName) >= 2
       /\ fileName[1] \in Upper
       /\ \A i \in 2..Len(fileName) : fileName[i] \in Digits
    THEN <<fileName, <<fileName[1]>>>>
    ELSE <<>>

\* The disk pattern "\\A([A-Z]\\d+)" on the content of a disk file: the
\* match (one upper-case letter and the longest run of digits after it),
\* <<>> when there is none.
RECURSIVE DigitRun(_)
DigitRun(s) ==
    IF s # <<>> /\ Head(s) \in Digits THEN <<Head(s)>> \o DigitRun(Tail(s)) ELSE <<>>

\* A variant of the disk pattern with a run of upper-case letters, "\\A([A-Z]+\\d+)".
RECURSIVE LetterRun(_)
LetterRun(s) ==
    IF s # <<>> /\ Head(s) \in Upper THEN <<Head(s)>> \o LetterRun(Tail(s)) ELSE <<>>

DiskPatternFindLetters(data) ==
    LET letters == LetterRun(data)
        rest == SubSeq(data, Len(letters) + 1, Len(data))
    IN  IF letters # <<>> /\ DigitRun(rest) # <<>> THEN letters \o DigitRun(rest) ELSE <<>>

DiskPatternFind(data) ==
    IF Len(data) >= 2 /\ data[1] \in Upper /\ data[2] \in Digits
    THEN <<data[1]>> \o DigitRun(Tail(data))
    ELSE <<>>

(***************************************************************************)
(* The environment of a run: the process environment, the filter rule      *)
(* file, the disk roots given on the command line (each with its disk file *)
(* and its tree of regular files, in the order filepath.WalkDir visits     *)
(* them) and the output directory.                                         *)
(***************************************************************************)
File(rel, data, perm) == [rel |-> rel, data |-> data, perm |-> perm]

FileA == File(<<"a">>, <<1, 2>>, TRUE)
FileB == File(<<"b">>, <<3>>, TRUE)
FileC == File(<<"c">>, <<2>>, TRUE)
FileBLocked == File(<<"b">>, <<3>>, FALSE)
FileDecomposed == File(<<"e", Combining>>, <<4>>, TRUE)
FileComposed == File(<<Composed>>, <<5>>, TRUE)
FileColon == File(<<"a", Colon, "b">>, <<6>>, TRUE)
FileNestedUnix == File(<<"d", "/", "a">>, <<1>>, TRUE)
FileNestedWindows == File(<<"d", "\\", "a">>, <<1>>, TRUE)

Present(data) == [exists |-> TRUE, data |-> data]
Missing == [exists |-> FALSE, data |-> <<>>]

Root(marker, tree) == [marker |-> marker, tree |-> tree]

A1 == <<"A", "1">>
A2 == <<"A", "2">>
B7 == <<"B", "7">>
GroupA == <<"A">>
GroupB == <<"B">>

RulesAll == <<"+", ".", "*", LF>>
RulesNotA == <<"#", "x", LF, LF, "-", "a", LF, "+", ".", "*", LF>>
RulesNone == <<>>
RulesBadSign == <<"a", "b", LF>>
RulesBadRegex == <<"+", "(", LF>>

Env(home, rules, roots, sep, faults, volatile) ==
    [home |-> home, filterConf |-> rules, roots |-> roots, sep |-> sep,
     faults |-> faults, volatile |-> volatile]

RECURSIVE OutDir(_)
OutDir(pairs) ==
    IF pairs = <<>> THEN << >>
    ELSE (Head(pairs)[1] :> Head(pairs)[2]) @@ OutDir(Tail(pairs))

\* Lines of fingerprint files that earlier runs left.
LineA == <<"a", Colon, "b", "6", LF>>
LineB == <<"b", Colon, "2", "6", LF>>
LineBOld == <<"b", Colon, "f", "f", LF>>
LineC == <<"c", Colon, "0", "1", LF>>
LineX == <<"x", Colon, "1", "1", LF>>
LineNoColon == <<"a", "b", LF>>

Scenario(e, out) == [env |-> e, out |-> out]

One(tree, rules, out) ==
    Scenario(Env(TRUE, Present(rules), <<Root(Present(A1 \o <<LF>>), tree)>>, "/", FALSE, FALSE), out)

Two(ida, treea, idb, treeb, out, faults) ==
    Scenario(Env(TRUE, Present(RulesAll),
                 <<Root(Present(ida), treea), Root(Present(idb), treeb)>>, "/", faults, FALSE), out)

Scenarios ==
    { \* one disk, first run
      One(<<FileA, FileB>>, RulesAll, << >>),
      \* one disk, resumed: b recorded, a not yet; c recorded and since deleted
      One(<<FileA, FileB>>, RulesAll, OutDir(<< <<A1, LineB \o LineC>> >>)),
      \* recorded files that the rules now exclude; a stale digest
      One(<<FileA, FileB>>, RulesNotA, OutDir(<< <<A1, LineA \o LineBOld>> >>)),
      One(<<FileA, FileB>>, RulesNone, OutDir(<< <<A1, LineB>> >>)),
      \* rules that exclude one of two unrecorded files
      One(<<FileA, FileB>>, RulesNotA, << >>),
      \* a file that cannot be opened
      One(<<FileA, FileBLocked>>, RulesAll, << >>),
      \* two names with the same NFC form
      One(<<FileDecomposed, FileComposed>>, RulesAll, << >>),
      \* a name that contains a colon
      One(<<FileColon, FileB>>, RulesAll, << >>),
      \* a fingerprint file with a line that has no colon, and one with an empty line
      One(<<FileA>>, RulesAll, OutDir(<< <<A1, LineB \o LineNoColon>> >>)),
      One(<<FileA>>, RulesAll, OutDir(<< <<A1, LineB \o <<LF>> \o LineA>> >>)),
      \* a nested file, on a build whose separator is the backslash
      Scenario(Env(TRUE, Present(RulesAll), <<Root(Present(A1), <<FileNestedWindows>>)>>, "\\", FALSE, FALSE), << >>),
      One(<<FileNestedUnix>>, RulesAll, << >>),
      \* two disks of one group, a disk file of another group that is not
      \* part of the run, and a group file of an earlier run
      Two(A1, <<FileA>>, A2, <<FileB>>,
          OutDir(<< <<A2, LineB>>, <<B7, LineX \o <<LF>> \o LineC \o LineC>>, <<GroupA, LineX>> >>), FALSE),
      \* the same, where an append can fail
      Two(A1, <<FileA, FileB>>, A2, <<FileC>>, << >>, TRUE),
      \* two roots whose disk files give the same id
      Two(A1, <<FileA>>, A1, <<FileB>>, << >>, FALSE),
      Two(A1, <<FileA>>, A1, <<FileB>>, OutDir(<< <<A1, LineA>> >>), FALSE),
      \* configuration errors
      Scenario(Env(FALSE, Present(RulesAll), <<Root(Present(A1), <<FileA>>)>>, "/", FALSE, FALSE), << >>),
      Scenario(Env(TRUE, Missing, <<Root(Present(A1), <<FileA>>)>>, "/", FALSE, FALSE), << >>),
      One(<<FileA>>, RulesBadSign, << >>),
      One(<<FileA>>, RulesBadRegex, << >>),
      Scenario(Env(TRUE, Present(RulesAll), <<Root(Present(A1), <<FileA>>), Root(Missing, <<FileB>>)>>, "/", FALSE, FALSE), << >>),
      Scenario(Env(TRUE, Present(RulesAll), <<Root(Present(A1), <<FileA>>), Root(Present(<<"a", "1">>), <<FileB>>)>>, "/", FALSE, FALSE), << >>),
      Scenario(Env(TRUE, Present(RulesAll), <<Root(Present(<<"A", "B", "1">>), <<FileA>>)>>, "/", FALSE, FALSE), << >>)
    }

(***************************************************************************)
(* State.                                                                  *)
(***************************************************************************)
VARIABLES
    env,               \* the environment of the runs (never changes)
    outFiles,          \* the output directory: file name -> content
    halt,              \* "running", "exited" (Execute returned) or "fatal" (log.Fatal: os.Exit)
    fatalAt,           \* what the fatal message names: <<>>, or <<file, line number>>
    mainPc,            \* where Execute is
    filters,           \* config.filters
    diskInfoList,      \* executeHashCalculation's diskInfoList
    worker,            \* the hashRoutine goroutines, by position in diskInfoList
    progressInfoList,  \* watchProgress's table, by DiskInfo.index
    received,          \* completion messages the main flow has received, in order (from: history, the sender)
    mergedHashMap,     \* executeHashFileIntegration's map: group -> lines
    calls,             \* history: the <<worker, position in its fileInfoList>> passed to calcHash in this run
    startFiles,        \* history: the output directory when this run started
    prev               \* history: how the previous run ended

vars == <<env, outFiles, halt, fatalAt, mainPc, filters, diskInfoList, worker,
          progressInfoList, received, mergedHashMap, calls, startFiles, prev>>

ProgressCount(total, processed) == [total |-> total, processed |-> processed]

\* ProgressCount.Increment
Increment(pc, n) == [pc EXCEPT !.processed = @ + n]

\* The zero ProgressInfo (diskInfo nil) and a worker's ProgressInfo.
NilDisk == 0 - 1
NoPath == [root |-> 0, rel |-> <<>>]
ZeroProgressInfo ==
    [diskInfo |-> NilDisk, sizeCount |-> ProgressCount(0, 0), fileCount |-> ProgressCount(0, 0),
     processingFile |-> NoPath]

NoWorkers == << >>

\* A goroutine that `go hashRoutine(...)` has just started.
NewWorker ==
    [pc |-> "hashRoutine", hashMap |-> << >>, fileInfoList |-> <<>>, totalSize |-> 0,
     trimmedHashs |-> <<>>, progressInfo |-> ZeroProgressInfo, i |-> 0,
     calcProgress |-> ZeroProgressInfo, hasher |-> Md5New, offset |-> 0,
     err |-> FALSE, hash |-> <<>>, appended |-> 0]

\* Before the first run: no previous run; fresh says whether the output
\* directory is empty.
PrevNone(out) ==
    [kind |-> "none", expected |-> << >>, unrecorded |-> FALSE, hashing |-> FALSE,
     fresh |-> DOMAIN out = {}]

InitWith(scenarios) ==
    \E s \in scenarios :
        /\ env = s.env
        /\ outFiles = s.out
        /\ halt = "running"
        /\ fatalAt = <<>>
        /\ mainPc = "initEnvs"
        /\ filters = <<>>
        /\ diskInfoList = <<>>
        /\ worker = NoWorkers
        /\ progressInfoList = << >>
        /\ received = <<>>
        /\ mergedHashMap = << >>
        /\ calls = {}
        /\ startFiles = s.out
        /\ prev = PrevNone(s.out)

Init == InitWith(Scenarios)

Running == halt = "running"

\* logf.Fatalf / logf.Fatalln: the process exits, with every goroutine.
Fatal(at) ==
    /\ halt' = "fatal"
    /\ fatalAt' = at

(***************************************************************************)
(* Execute: initEnvs, initFilters, executeHashCalculation up to the start  *)
(* of the goroutines.                                                      *)
(***************************************************************************)
InitEnvs ==
    /\ Running /\ mainPc = "initEnvs"
    /\ IF env.home
       THEN /\ mainPc' = "initFilters"
            /\ UNCHANGED <<halt, fatalAt>>
       ELSE /\ Fatal(<<>>)
            /\ UNCHANGED mainPc
    /\ UNCHANGED <<env, outFiles, filters, diskInfoList, worker, progressInfoList,
                   received, mergedHashMap, calls, startFiles, prev>>

\* The loop of initFilters over the lines of filter.conf from line i on:
\* the filters appended to acc, or the number of the line that is fatal.
RECURSIVE LoadFilters(_, _, _)
LoadFilters(lines, i, acc) ==
    IF i > Len(lines) THEN [ok |-> TRUE, line |-> 0, filters |-> acc]
    ELSE LET line == NFC(lines[i])
         IN  IF line = <<>> \/ line[1] = "#" THEN LoadFilters(lines, i + 1, acc)
             ELSE IF Len(line) < 2 \/ (line[1] # "+" /\ line[1] # "-")
                  THEN [ok |-> FALSE, line |-> i, filters |-> acc]
                  ELSE LET re == RegexCompile(Tail(line))
                       IN  IF ~re.ok THEN [ok |-> FALSE, line |-> i, filters |-> acc]
                           ELSE LoadFilters(lines, i + 1,
                                    Append(acc, [pattern |-> re, inclusion |-> line[1] = "+"]))

InitFilters ==
    /\ Running /\ mainPc = "initFilters"
    /\ LET loaded == LoadFilters(ScanLines(env.filterConf.data), 1, <<>>)
       IN  IF env.filterConf.exists /\ loaded.ok
           THEN /\ filters' = loaded.filters
                /\ mainPc' = "executeHashCalculation"
                /\ UNCHANGED <<halt, fatalAt>>
           ELSE /\ Fatal(<<>>)
                /\ UNCHANGED <<filters, mainPc>>
    /\ UNCHANGED <<env, outFiles, diskInfoList, worker, progressInfoList,
                   received, mergedHashMap, calls, startFiles, prev>>

\* A variant of makeDiskInfoList that leaves out a root whose disk file is
\* missing or malformed.
RECURSIVE MakeDiskInfoListSkipping(_, _, _)
MakeDiskInfoListSkipping(roots, r, acc) ==
    IF r > Len(roots) THEN [ok |-> TRUE, list |-> acc]
    ELSE LET match == DiskPatternFind(roots[r].marker.data)
         IN  IF ~roots[r].marker.exists \/ match = <<>>
             THEN MakeDiskInfoListSkipping(roots, r + 1, acc)
             ELSE MakeDiskInfoListSkipping(roots, r + 1,
                      Append(acc, [index |-> Len(acc), id |-> match, rootPath |-> r]))

\* makeDiskInfoList over the disk files of the roots from position r on.
RECURSIVE MakeDiskInfoList(_, _, _)
MakeDiskInfoList(roots, r, acc) ==
    IF r > Len(roots) THEN [ok |-> TRUE, list |-> acc]
    ELSE LET match == DiskPatternFind(roots[r].marker.data)
         IN  IF ~roots[r].marker.exists \/ match = <<>>
             THEN [ok |-> FALSE, list |-> acc]
             ELSE MakeDiskInfoList(roots, r + 1,
                      Append(acc, [index |-> Len(acc), id |-> match, rootPath |-> r]))

\* DiskInfo.hashFile: the name of the disk's file in the output directory.
HashFile(diskInfo) == diskInfo.id

ExecuteHashCalculation ==
    /\ Running /\ mainPc = "executeHashCalculation"
    /\ LET made == MakeDiskInfoList(env.roots, 1, <<>>)
       IN  IF made.ok
           THEN /\ diskInfoList' = made.list
                /\ worker' = [w \in 1..Len(made.list) |-> NewWorker]
                /\ progressInfoList' = [k \in 0..(Len(made.list) - 1) |-> ZeroProgressInfo]
                /\ mainPc' = "wait"
                /\ UNCHANGED <<halt, fatalAt>>
           ELSE /\ Fatal(<<>>)
                /\ UNCHANGED <<diskInfoList, worker, progressInfoList, mainPc>>
    /\ UNCHANGED <<env, outFiles, filters, received, mergedHashMap, calls, startFiles, prev>>

(***************************************************************************)
(* hashRoutine, listFileInfo, makeHashMap, calcHash: one goroutine per     *)
(* element of diskInfoList.                                                *)
(***************************************************************************)
Workers == DOMAIN worker

DiskOf(w) == diskInfoList[w]
TreeOf(w) == env.roots[DiskOf(w).rootPath].tree

Set(w, fields) == worker' = [worker EXCEPT ![w] = fields @@ worker[w]]

\* Open with O_CREATE: the file as it is, created empty when it is not there.
Create(files, name) == IF name \in DOMAIN files THEN files ELSE (name :> <<>>) @@ files

\* A write of data at offset 0 of a file opened without O_APPEND.
WriteAtStart(old, data) == data \o SubSeq(old, Len(data) + 1, Len(old))

\* A write to a file opened with O_APPEND.
AppendWrite(old, data) == old \o data

\* hashRoutine up to the call of listFileInfo: MkdirAll and OpenFile.
HashRoutine(w) ==
    /\ Running /\ worker[w].pc = "hashRoutine"
    /\ outFiles' = Create(outFiles, HashFile(DiskOf(w)))
    /\ Set(w, [pc |-> "makeHashMap"])
    /\ UNCHANGED <<env, halt, fatalAt, mainPc, filters, diskInfoList, progressInfoList,
                   received, mergedHashMap, calls, startFiles, prev>>

MapPut(m, k, v) == [x \in DOMAIN m \cup {k} |-> IF x = k THEN v ELSE m[x]]

\* The number of tokens a fingerprint line must split into.
TokensPerLine == 2

\* The loop of makeHashMap from line i on: the map, or the number of the
\* first line that does not split into two tokens.
RECURSIVE ScanHashFile(_, _, _)
ScanHashFile(lines, i, result) ==
    IF i > Len(lines) THEN [ok |-> TRUE, line |-> 0, map |-> result]
    ELSE LET tokens == Split(lines[i], Colon)
         IN  IF Len(tokens) # TokensPerLine THEN [ok |-> FALSE, line |-> i, map |-> result]
             ELSE ScanHashFile(lines, i + 1, MapPut(result, tokens[1], tokens[2]))

\* A variant that skips the lines that do not split into two tokens.
RECURSIVE ScanHashFileSkipping(_, _, _)
ScanHashFileSkipping(lines, i, result) ==
    IF i > Len(lines) THEN [ok |-> TRUE, line |-> 0, map |-> result]
    ELSE LET tokens == Split(lines[i], Colon)
         IN  IF Len(tokens) # TokensPerLine THEN ScanHashFileSkipping(lines, i + 1, result)
             ELSE ScanHashFileSkipping(lines, i + 1, MapPut(result, tokens[1], tokens[2]))

MakeHashMapOfSkipping(files, name) ==
    IF name \notin DOMAIN files THEN [ok |-> TRUE, line |-> 0, map |-> << >>]
    ELSE ScanHashFileSkipping(ScanLines(files[name]), 1, << >>)

MakeHashMapOf(files, name) ==
    IF name \notin DOMAIN files THEN [ok |-> TRUE, line |-> 0, map |-> << >>]
    ELSE ScanHashFile(ScanLines(files[name]), 1, << >>)

MakeHashMap(w) ==
    /\ Running /\ worker[w].pc = "makeHashMap"
    /\ LET read == MakeHashMapOf(outFiles, HashFile(DiskOf(w)))
       IN  IF read.ok
           THEN /\ Set(w, [pc |-> "listFiles", hashMap |-> read.map])
                /\ UNCHANGED <<halt, fatalAt>>
           ELSE /\ Fatal(<<HashFile(DiskOf(w)), read.line>>)
                /\ UNCHANGED worker
    /\ UNCHANGED <<env, outFiles, mainPc, filters, diskInfoList, progressInfoList,
                   received, mergedHashMap, calls, startFiles, prev>>

\* FileInfo.init: the canonical path of a file of a disk.
NormPath(rel, sep) == NFC(ToSlash(rel, sep))

FileInfoInit(root, file, sep) ==
    [realPath |-> [root |-> root, rel |-> file.rel], normPath |-> NormPath(file.rel, sep), size |-> 0 - 1]

\* filterFile: the inclusion flag of the first filter that matches.
RECURSIVE FilterFrom(_, _, _)
FilterFrom(fs, k, normPath) ==
    IF k > Len(fs) THEN FALSE
    ELSE IF MatchString(fs[k].pattern, normPath) THEN fs[k].inclusion
    ELSE FilterFrom(fs, k + 1, normPath)

\* A variant of filterFile in which the last matching filter decides.
FilterFileLast(fs, normPath) ==
    LET matching == {k \in 1..Len(fs) : MatchString(fs[k].pattern, normPath)}
    IN  matching # {} /\ fs[CHOOSE k \in matching : \A j \in matching : j <= k].inclusion

FilterFile(fs, normPath) == FilterFrom(fs, 1, normPath)

\* The line listFileInfo writes for a recorded file, and the one hashRoutine
\* appends for a hashed one ("%s:%x\n").
CarryLine(normPath, hash) == normPath \o <<Colon>> \o hash \o <<LF>>
HashLine(normPath, sum) == normPath \o <<Colon>> \o Hex(sum) \o <<LF>>

\* Variants of the loop body: the filter asked before the lookup, and no
\* lookup at all.
DecideFilterFirst(hashMap, fs, normPath) ==
    IF ~FilterFile(fs, normPath) THEN "drop"
    ELSE IF normPath \in DOMAIN hashMap THEN "carry"
    ELSE "queue"

DecideNoLookup(hashMap, fs, normPath) ==
    IF FilterFile(fs, normPath) THEN "queue" ELSE "drop"

\* The body of listFileInfo's loop decides for one walked file: a file found
\* in hashMap is carried forward, another one is queued if filterFile says so.
Decide(hashMap, fs, normPath) ==
    IF normPath \in DOMAIN hashMap THEN "carry"
    ELSE IF FilterFile(fs, normPath) THEN "queue"
    ELSE "drop"

\* The loop of listFileInfo over the walked files from position k on.
\* sizes[k] is what os.Stat gives for file k at this time.
RECURSIVE ListLoop(_, _, _, _, _, _, _)
ListLoop(hashMap, fs, root, sep, files, sizes, k) ==
    IF k > Len(files) THEN [trimmedHashs |-> <<>>, fileInfoList |-> <<>>, totalSize |-> 0]
    ELSE LET fileInfo == FileInfoInit(root, files[k], sep)
             rest == ListLoop(hashMap, fs, root, sep, files, sizes, k + 1)
             what == Decide(hashMap, fs, fileInfo.normPath)
         IN  IF what = "carry"
             THEN [rest EXCEPT !.trimmedHashs =
                       CarryLine(fileInfo.normPath, hashMap[fileInfo.normPath]) \o @]
             ELSE IF what = "queue"
                  THEN [rest EXCEPT !.fileInfoList = <<fileInfo>> \o @,
                                    !.totalSize = sizes[k] + @]
                  ELSE rest

\* What FileInfo.size can give for a file that is not sized yet: the size
\* os.Stat reports; where files change under the run, also 0 (the file is
\* empty at that time, or the stat fails).
StatSizes(file) == {Len(file.data)} \cup (IF env.volatile THEN {0} ELSE {})

ListFiles(w) ==
    /\ Running /\ worker[w].pc = "listFiles"
    /\ \E sizes \in [1..Len(TreeOf(w)) -> UNION {StatSizes(f) : f \in Range(TreeOf(w))}] :
          /\ \A k \in 1..Len(TreeOf(w)) : sizes[k] \in StatSizes(TreeOf(w)[k])
          /\ LET listed == ListLoop(worker[w].hashMap, filters, DiskOf(w).rootPath, env.sep,
                                    TreeOf(w), sizes, 1)
             IN  Set(w, [pc |-> "writeFileOpen", trimmedHashs |-> listed.trimmedHashs,
                         fileInfoList |-> listed.fileInfoList, totalSize |-> listed.totalSize])
    /\ UNCHANGED <<env, outFiles, halt, fatalAt, mainPc, filters, diskInfoList, progressInfoList,
                   received, mergedHashMap, calls, startFiles, prev>>

\* ioutil.WriteFile, first half: OpenFile with O_WRONLY|O_CREATE|O_TRUNC.
WriteFileOpen(w) ==
    /\ Running /\ worker[w].pc = "writeFileOpen"
    /\ outFiles' = (HashFile(DiskOf(w)) :> <<>>) @@ outFiles
    /\ Set(w, [pc |-> "writeFileWrite"])
    /\ UNCHANGED <<env, halt, fatalAt, mainPc, filters, diskInfoList, progressInfoList,
                   received, mergedHashMap, calls, startFiles, prev>>

\* ioutil.WriteFile, second half: the write of the buffer; listFileInfo
\* returns and hashRoutine builds its ProgressInfo.
WriteFileWrite(w) ==
    /\ Running /\ worker[w].pc = "writeFileWrite"
    /\ outFiles' = [outFiles EXCEPT ![HashFile(DiskOf(w))] = WriteAtStart(@, worker[w].trimmedHashs)]
    /\ Set(w, [pc |-> "seed",
               progressInfo |-> [diskInfo |-> DiskOf(w).index,
                                 fileCount |-> ProgressCount(Len(worker[w].fileInfoList), 0),
                                 sizeCount |-> ProgressCount(worker[w].totalSize, 0),
                                 processingFile |-> NoPath]])
    /\ UNCHANGED <<env, halt, fatalAt, mainPc, filters, diskInfoList, progressInfoList,
                   received, mergedHashMap, calls, startFiles, prev>>

\* A send on the unbuffered progress channel, received by watchProgress,
\* which stores the snapshot in the slot of the disk's index.
Watch(info) == progressInfoList' = [progressInfoList EXCEPT ![info.diskInfo] = info]

\* hashRoutine: progressChannel <- progressInfo, before the loop.
SendSeed(w) ==
    /\ Running /\ worker[w].pc = "seed"
    /\ Watch(worker[w].progressInfo)
    /\ Set(w, [pc |-> IF worker[w].fileInfoList = <<>> THEN "final" ELSE "calcHash", i |-> 1])
    /\ UNCHANGED <<env, outFiles, halt, fatalAt, mainPc, filters, diskInfoList,
                   received, mergedHashMap, calls, startFiles, prev>>

Current(w) == worker[w].fileInfoList[worker[w].i]

\* The file of the disk a FileInfo stands for.
FileAt(realPath) ==
    LET tree == env.roots[realPath.root].tree
    IN  tree[CHOOSE k \in 1..Len(tree) : tree[k].rel = realPath.rel]

\* Whether os.Open of a file can succeed, and whether it can fail.
CanOpen(file) == file.perm
CanFailOpen(file) == ~file.perm \/ env.volatile

\* calcHash, os.Open: the copy of progressInfo that calcHash works on gets
\* the file's name; an error returns to hashRoutine.
CalcHashOpen(w) ==
    /\ Running /\ worker[w].pc = "calcHash"
    /\ calls' = calls \cup {<<w, worker[w].i>>}
    /\ \/ /\ CanOpen(FileAt(Current(w).realPath))
          /\ Set(w, [pc |-> "read", hasher |-> Md5New, offset |-> 0,
                     calcProgress |-> [worker[w].progressInfo EXCEPT
                                          !.processingFile = Current(w).realPath]])
       \/ /\ CanFailOpen(FileAt(Current(w).realPath))
          /\ Set(w, [pc |-> "hashed", err |-> TRUE, hash |-> <<>>])
    /\ UNCHANGED <<env, outFiles, halt, fatalAt, mainPc, filters, diskInfoList, progressInfoList,
                   received, mergedHashMap, startFiles, prev>>

\* The size of calcHash's buffer, in the model's unit (10 << 20 bytes in the code).
BufferSize == 1

Min(a, b) == IF a < b THEN a ELSE b

\* What fileIn.Read can return for a file read up to offset: the number of
\* bytes (0 at the end of the file, and 0 with an error where reads can fail).
ReadResults(file, offset) ==
    {Min(Len(file.data) - offset, BufferSize)} \cup (IF env.volatile THEN {0} ELSE {})

\* calcHash, one pass of the read loop: ret = 0 ends the loop and the digest
\* is returned without an error; otherwise the bytes go to the hasher and the
\* copy's processed bytes advance.
CalcHashRead(w) ==
    /\ Running /\ worker[w].pc = "read"
    /\ \E ret \in ReadResults(FileAt(Current(w).realPath), worker[w].offset) :
          IF ret = 0
          THEN Set(w, [pc |-> "hashed", err |-> FALSE, hash |-> Md5Sum(worker[w].hasher)])
          ELSE Set(w, [pc |-> "send", offset |-> worker[w].offset + ret,
                       hasher |-> Md5Write(worker[w].hasher,
                                     SubSeq(FileAt(Current(w).realPath).data,
                                            worker[w].offset + 1, worker[w].offset + ret)),
                       calcProgress |-> [worker[w].calcProgress EXCEPT
                                            !.sizeCount = Increment(@, ret)]])
    /\ UNCHANGED <<env, outFiles, halt, fatalAt, mainPc, filters, diskInfoList, progressInfoList,
                   received, mergedHashMap, calls, startFiles, prev>>

\* calcHash: progressInfoChannel <- progressInfo, after each chunk.
CalcHashSend(w) ==
    /\ Running /\ worker[w].pc = "send"
    /\ Watch(worker[w].calcProgress)
    /\ Set(w, [pc |-> "read"])
    /\ UNCHANGED <<env, outFiles, halt, fatalAt, mainPc, filters, diskInfoList,
                   received, mergedHashMap, calls, startFiles, prev>>

\* FileInfo.size of an element of fileInfoList: the element was appended
\* before listFileInfo resolved the size, so its _size is still -1 and the
\* file is stat'ed now.
SizeOf(fileInfo) ==
    IF fileInfo.size # 0 - 1 THEN {fileInfo.size} ELSE StatSizes(FileAt(fileInfo.realPath))

\* Whether fmt.Fprintf to the fingerprint file can fail.
CanFailAppend == env.faults

Advance(w, size, more) ==
    [pc |-> IF worker[w].i = Len(worker[w].fileInfoList) THEN "final" ELSE "calcHash",
     i |-> worker[w].i + 1,
     progressInfo |-> [worker[w].progressInfo EXCEPT !.fileCount = Increment(@, 1),
                                                     !.sizeCount = Increment(@, size)]] @@ more

\* A variant of the step after calcHash in which the loop goes on after a
\* failed append.
RecordContinue(w) ==
    /\ Running /\ worker[w].pc = "hashed"
    /\ \E size \in SizeOf(Current(w)) :
          \/ /\ worker[w].err
             /\ Set(w, Advance(w, size, << >>))
             /\ UNCHANGED outFiles
          \/ /\ ~worker[w].err
             /\ outFiles' = [outFiles EXCEPT ![HashFile(DiskOf(w))] =
                                AppendWrite(@, HashLine(Current(w).normPath, worker[w].hash))]
             /\ Set(w, Advance(w, size, [appended |-> worker[w].appended + 1]))
          \/ /\ ~worker[w].err /\ CanFailAppend
             /\ Set(w, Advance(w, size, << >>))
             /\ UNCHANGED outFiles
    /\ UNCHANGED <<env, halt, fatalAt, mainPc, filters, diskInfoList, progressInfoList,
                   received, mergedHashMap, calls, startFiles, prev>>

\* hashRoutine after calcHash returned: the counters advance; on an error the
\* loop continues; otherwise the line is appended, and a failed append sends
\* the completion message with the error.
Record(w) ==
    /\ Running /\ worker[w].pc = "hashed"
    /\ \E size \in SizeOf(Current(w)) :
          \/ /\ worker[w].err
             /\ Set(w, Advance(w, size, << >>))
             /\ UNCHANGED outFiles
          \/ /\ ~worker[w].err
             /\ outFiles' = [outFiles EXCEPT ![HashFile(DiskOf(w))] =
                                AppendWrite(@, HashLine(Current(w).normPath, worker[w].hash))]
             /\ Set(w, Advance(w, size, [appended |-> worker[w].appended + 1]))
          \/ /\ ~worker[w].err /\ CanFailAppend
             /\ Set(w, [pc |-> "failed"] @@ Advance(w, size, << >>))
             /\ UNCHANGED outFiles
    /\ UNCHANGED <<env, halt, fatalAt, mainPc, filters, diskInfoList, progressInfoList,
                   received, mergedHashMap, calls, startFiles, prev>>

\* hashRoutine: progressChannel <- progressInfo, after the loop.
SendFinal(w) ==
    /\ Running /\ worker[w].pc = "final"
    /\ Watch(worker[w].progressInfo)
    /\ Set(w, [pc |-> "complete"])
    /\ UNCHANGED <<env, outFiles, halt, fatalAt, mainPc, filters, diskInfoList,
                   received, mergedHashMap, calls, startFiles, prev>>

\* A variant that waits for one completion message more.
CompletionsAwaitedLong(list) == Len(list) + 1

\* A variant that waits for one completion message fewer.
CompletionsAwaitedShort(list) == Len(list) - 1

\* The number of completion messages executeHashCalculation waits for.
CompletionsAwaited(list) == Len(list)

\* completionChannel <- CompletionMessage{...} in hashRoutine, received by
\* the loop of executeHashCalculation; after the last one Execute goes on to
\* executeHashFileIntegration.
Complete(w) ==
    /\ Running /\ mainPc = "wait" /\ worker[w].pc \in {"complete", "failed"}
    /\ received' = Append(received, [diskId |-> DiskOf(w).id, err |-> worker[w].pc = "failed",
                                      from |-> w])
    /\ Set(w, [pc |-> "done"])
    /\ mainPc' = IF Len(received') >= CompletionsAwaited(diskInfoList) THEN "integration" ELSE "wait"
    /\ UNCHANGED <<env, outFiles, halt, fatalAt, filters, diskInfoList, progressInfoList,
                   mergedHashMap, calls, startFiles, prev>>

(***************************************************************************)
(* executeHashFileIntegration.                                             *)
(***************************************************************************)
\* filepath.Glob(outDir/*): the names of the directory, sorted.
RECURSIVE Glob(_)
Glob(names) ==
    IF names = {} THEN <<>>
    ELSE LET first == CHOOSE n \in names : \A m \in names : StrLeq(n, m)
         IN  <<first>> \o Glob(names \ {first})

\* sort.Strings
RECURSIVE Insert(_, _)
Insert(sorted, line) ==
    IF sorted = <<>> THEN <<line>>
    ELSE IF StrLeq(line, Head(sorted)) THEN <<line>> \o sorted
    ELSE <<Head(sorted)>> \o Insert(Tail(sorted), line)

RECURSIVE SortStrings(_)
SortStrings(lines) ==
    IF lines = <<>> THEN <<>> ELSE Insert(SortStrings(Tail(lines)), Head(lines))

\* A variant of the read loop that keeps empty lines too.
KeptLinesAll(content) == ScanLines(content)

\* The lines of a file that the read loop keeps: the ones that are not empty.
KeptLines(content) == SelectSeq(ScanLines(content), LAMBDA line : line # <<>>)

\* The first loop, over the output files from position k on: the lines of
\* every file whose name matches hashFilePattern, added to its group's.
RECURSIVE ReadHashFiles(_, _, _, _)
ReadHashFiles(files, names, k, merged) ==
    IF k > Len(names) THEN merged
    ELSE LET subMatches == HashFilePatternFind(names[k])
         IN  IF subMatches = <<>> THEN ReadHashFiles(files, names, k + 1, merged)
             ELSE LET group == subMatches[2]
                      mergedHashes == IF group \in DOMAIN merged THEN merged[group] ELSE <<>>
                  IN  ReadHashFiles(files, names, k + 1,
                          MapPut(merged, group, mergedHashes \o KeptLines(files[names[k]])))

IntegrationRead ==
    /\ Running /\ mainPc = "integration"
    /\ mergedHashMap' = ReadHashFiles(outFiles, Glob(DOMAIN outFiles), 1, << >>)
    /\ mainPc' = "write"
    /\ UNCHANGED <<env, outFiles, halt, fatalAt, filters, diskInfoList, worker, progressInfoList,
                   received, calls, startFiles, prev>>

\* What the second loop writes for one group: OpenFile with O_TRUNC, and
\* Fprintln of every line in sorted order.
GroupFile(mergedHashes) == WriteLines(SortStrings(mergedHashes))

\* One pass of the second loop (a Go map is ranged over in any order).
IntegrationWrite(group) ==
    /\ Running /\ mainPc = "write" /\ group \in DOMAIN mergedHashMap
    /\ outFiles' = (group :> GroupFile(mergedHashMap[group])) @@ outFiles
    /\ mergedHashMap' = [g \in DOMAIN mergedHashMap \ {group} |-> mergedHashMap[g]]
    /\ UNCHANGED <<env, halt, fatalAt, mainPc, filters, diskInfoList, worker, progressInfoList,
                   received, calls, startFiles, prev>>

\* Execute returns: the process exits.
ExecuteReturn ==
    /\ Running /\ mainPc = "write" /\ DOMAIN mergedHashMap = {}
    /\ halt' = "exited"
    /\ mainPc' = "done"
    /\ UNCHANGED <<env, outFiles, fatalAt, filters, diskInfoList, worker, progressInfoList,
                   received, mergedHashMap, calls, startFiles, prev>>

(***************************************************************************)
(* The program is run again on the same environment, after the process has *)
(* exited or when it is killed where it is.  The output directory is all   *)
(* that the next run finds of this one.                                    *)
(***************************************************************************)
Hashing(w) == worker[w].pc \in {"calcHash", "read", "send", "hashed"}

\* The digest of a whole file, as "%x" prints it.
FullDigest(file) == Hex(Md5Sum(Md5Write(Md5New, file.data)))

\* The lines that a run which is not interrupted leaves for a tree, when it
\* starts with the fingerprint file content: the recorded line of every
\* walked file that has one, and the line of every other file that the
\* rules include and that can be read.
UninterruptedLines(content, tree, fs, sep) ==
    LET read == ScanHashFile(ScanLines(content), 1, << >>)
    IN  { IF NormPath(f.rel, sep) \in DOMAIN read.map
          THEN NormPath(f.rel, sep) \o <<Colon>> \o read.map[NormPath(f.rel, sep)]
          ELSE NormPath(f.rel, sep) \o <<Colon>> \o FullDigest(f) :
          f \in { g \in Range(tree) :
                     \/ NormPath(g.rel, sep) \in DOMAIN read.map
                     \/ FilterFile(fs, NormPath(g.rel, sep)) /\ g.perm } }

ContentOf(files, name) == IF name \in DOMAIN files THEN files[name] ELSE <<>>

\* Per worker, what a run from this run's start would leave if nothing
\* interrupted it.
ExpectedOfRun ==
    [w \in Workers |->
        UninterruptedLines(ContentOf(startFiles, HashFile(DiskOf(w))), TreeOf(w), filters, env.sep)]

RunSummary ==
    [kind |-> IF halt = "exited" THEN "complete" ELSE IF halt = "fatal" THEN "fatal" ELSE "killed",
     expected |-> ExpectedOfRun,
     unrecorded |-> \E w \in Workers : worker[w].appended < Len(worker[w].fileInfoList),
     hashing |-> \E w \in Workers : Hashing(w),
     fresh |-> prev.fresh /\ halt = "exited"]

RunAgain ==
    /\ halt' = "running"
    /\ fatalAt' = <<>>
    /\ mainPc' = "initEnvs"
    /\ filters' = <<>>
    /\ diskInfoList' = <<>>
    /\ worker' = NoWorkers
    /\ progressInfoList' = << >>
    /\ received' = <<>>
    /\ mergedHashMap' = << >>
    /\ calls' = {}
    /\ startFiles' = outFiles
    /\ prev' = RunSummary
    /\ UNCHANGED <<env, outFiles>>

Next ==
    \/ InitEnvs
    \/ InitFilters
    \/ ExecuteHashCalculation
    \/ \E w \in Workers : HashRoutine(w)
    \/ \E w \in Workers : MakeHashMap(w)
    \/ \E w \in Workers : ListFiles(w)
    \/ \E w \in Workers : WriteFileOpen(w)
    \/ \E w \in Workers : WriteFileWrite(w)
    \/ \E w \in Workers : SendSeed(w)
    \/ \E w \in Workers : CalcHashOpen(w)
    \/ \E w \in Workers : CalcHashRead(w)
    \/ \E w \in Workers : CalcHashSend(w)
    \/ \E w \in Workers : Record(w)
    \/ \E w \in Workers : SendFinal(w)
    \/ \E w \in Workers : Complete(w)
    \/ IntegrationRead
    \/ \E group \in DOMAIN mergedHashMap : IntegrationWrite(group)
    \/ ExecuteReturn
    \/ RunAgain

Spec == Init /\ [][Next]_vars

(***************************************************************************)
(* One run that nothing stops from outside, with the scheduling of the Go  *)
(* runtime: a goroutine that can take a step eventually takes one. The     *)
(* progress watcher is always ready to receive, so a send on the progress  *)
(* channel is a step of the sender alone; a send on the completion channel *)
(* is a step of the sender together with the main flow's receive.          *)
(***************************************************************************)
MaxWorkers == 2

MainStep ==
    \/ InitEnvs
    \/ InitFilters
    \/ ExecuteHashCalculation
    \/ IntegrationRead
    \/ \E group \in DOMAIN mergedHashMap : IntegrationWrite(group)
    \/ ExecuteReturn

WorkerStep(w) ==
    /\ w \in Workers
    /\ \/ HashRoutine(w)
       \/ MakeHashMap(w)
       \/ ListFiles(w)
       \/ WriteFileOpen(w)
       \/ WriteFileWrite(w)
       \/ SendSeed(w)
       \/ CalcHashOpen(w)
       \/ CalcHashRead(w)
       \/ CalcHashSend(w)
       \/ Record(w)
       \/ SendFinal(w)
       \/ Complete(w)

OneRun ==
    \/ InitEnvs
    \/ InitFilters
    \/ ExecuteHashCalculation
    \/ \E w \in Workers : HashRoutine(w)
    \/ \E w \in Workers : MakeHashMap(w)
    \/ \E w \in Workers : ListFiles(w)
    \/ \E w \in Workers : WriteFileOpen(w)
    \/ \E w \in Workers : WriteFileWrite(w)
    \/ \E w \in Workers : SendSeed(w)
    \/ \E w \in Workers : CalcHashOpen(w)
    \/ \E w \in Workers : CalcHashRead(w)
    \/ \E w \in Workers : CalcHashSend(w)
    \/ \E w \in Workers : Record(w)
    \/ \E w \in Workers : SendFinal(w)
    \/ \E w \in Workers : Complete(w)
    \/ IntegrationRead
    \/ \E group \in DOMAIN mergedHashMap : IntegrationWrite(group)
    \/ ExecuteReturn

Fairness ==
    /\ WF_vars(MainStep)
    /\ \A w \in 1..MaxWorkers : WF_vars(WorkerStep(w))

SpecOneRun == Init /\ [][OneRun]_vars /\ Fairness

(***************************************************************************)
(* The same program on a disk whose files change while it runs: os.Stat    *)
(* may give any size or fail, os.Open may fail, a read may end early.      *)
(***************************************************************************)
ChangingScenarios ==
    { Scenario(Env(TRUE, Present(RulesAll), <<Root(Present(A1), <<FileB, FileC>>)>>, "/", TRUE, TRUE), << >>) }

InitChanging == InitWith(ChangingScenarios)

SpecChanging == InitChanging /\ [][Next]_vars

(***************************************************************************)
(* Properties.                                                             *)
(***************************************************************************)
Listed(w) == worker[w].pc \notin {"hashRoutine", "makeHashMap", "listFiles"}

SoleOwner(w) == \A v \in Workers \ {w} : HashFile(DiskOf(v)) # HashFile(DiskOf(w))

OwnFile(w) == ContentOf(outFiles, HashFile(DiskOf(w)))
OwnFileAtStart(w) == ContentOf(startFiles, HashFile(DiskOf(w)))

\* The canonical paths of the walked files, in walk order, and those among
\* them that the worker's hashMap has.
WalkedPaths(w) == [k \in 1..Len(TreeOf(w)) |-> NormPath(TreeOf(w)[k].rel, env.sep)]
RecordedPaths(w) == SelectSeq(WalkedPaths(w), LAMBDA p : p \in DOMAIN worker[w].hashMap)

PathOf(line) == Split(line, Colon)[1]
PathsOf(lines) == [i \in 1..Len(lines) |-> PathOf(lines[i])]

\* C1: the merge never starts before the main flow has received exactly one
\* completion message from every worker (with an error or not), and while
\* the merge runs every worker has returned, so none can still append.
C1_MergeAfterEveryCompletion ==
    mainPc \in {"integration", "write", "done"} =>
        /\ Len(received) = Len(diskInfoList)
        /\ \A w \in Workers :
              /\ Cardinality({i \in 1..Len(received) : received[i].from = w}) = 1
              /\ worker[w].pc = "done"

C1_Witness ==
    /\ mainPc = "write"
    /\ Len(diskInfoList) = 2
    /\ \E i \in 1..Len(received) : received[i].err
    /\ \E i \in 1..Len(received) : ~received[i].err

\* C2: a walked file whose canonical path is a key of the fingerprint file
\* as the worker read it is never queued and never passed to calcHash, and
\* the carry-forward buffer holds its line with the recorded digest, in walk
\* order, whatever the filter rules say about the path.
C2_RecordedNeverRehashed ==
    \A w \in Workers :
        /\ Listed(w) =>
              /\ \A k \in 1..Len(worker[w].fileInfoList) :
                    worker[w].fileInfoList[k].normPath \notin DOMAIN worker[w].hashMap
              /\ ScanLines(worker[w].trimmedHashs) =
                    [k \in 1..Len(RecordedPaths(w)) |->
                        RecordedPaths(w)[k] \o <<Colon>> \o worker[w].hashMap[RecordedPaths(w)[k]]]
        /\ \A c \in calls :
              c[1] = w => worker[w].fileInfoList[c[2]].normPath \notin DOMAIN worker[w].hashMap
        /\ (SoleOwner(w) /\ worker[w].pc = "listFiles") =>
              DOMAIN worker[w].hashMap = Range(PathsOf(ScanLines(OwnFileAtStart(w))))

C2_Witness ==
    \E w \in Workers :
        /\ worker[w].pc = "done"
        /\ \E p \in Range(RecordedPaths(w)) :
              /\ ~FilterFile(filters, p)
              /\ p \o <<Colon>> \o worker[w].hashMap[p] \in Range(ScanLines(OwnFile(w)))

\* C3: the rewrite at the end of listing is atomic with respect to process
\* termination: wherever the process stops during or right after listing,
\* the file holds the complete prior content or the complete carry-forward
\* content.
C3_RewriteIsAtomic ==
    \A w \in Workers :
        (SoleOwner(w) /\ worker[w].pc \in {"listFiles", "writeFileOpen", "writeFileWrite", "seed"}) =>
            OwnFile(w) \in {OwnFileAtStart(w), worker[w].trimmedHashs}

LastDigest(lines, p) ==
    LET last == CHOOSE i \in 1..Len(lines) :
                    PathOf(lines[i]) = p /\ \A j \in (i + 1)..Len(lines) : PathOf(lines[j]) # p
    IN  Split(lines[last], Colon)[2]

C5_Resumable ==
    (Len(env.roots) = 1 /\ prev.kind = "killed" /\ prev.hashing /\ halt \in {"exited", "fatal"}) =>
        \A w \in Workers :
            /\ Range(ScanLines(OwnFile(w))) = prev.expected[w]
            /\ \A c \in calls :
                  worker[c[1]].fileInfoList[c[2]].normPath \notin Range(PathsOf(ScanLines(OwnFileAtStart(w))))

\* The carried records of a worker: one line for every walked file whose
\* canonical path the hashMap has, with the digest the hashMap gives.
CarriedRecords(w) ==
    {p \o <<Colon>> \o worker[w].hashMap[p] : p \in DOMAIN worker[w].hashMap \cap Range(WalkedPaths(w))}

\* The worker has listed its disk and has not yet begun to hash a file.
BeforeFirstHash(w) ==
    /\ worker[w].pc \in {"seed", "calcHash"}
    /\ \A c \in calls : c[1] # w

\* C6: from the return of listFileInfo until the first file of the disk is
\* hashed, the disk's fingerprint file holds exactly the carried records:
\* no line of a recorded path that is no longer on the disk, and no line of
\* a file that is queued.
C6_FileHoldsCarriedRecords ==
    \A w \in Workers :
        BeforeFirstHash(w) =>
            /\ OwnFile(w) = worker[w].trimmedHashs
            /\ Range(ScanLines(OwnFile(w))) = CarriedRecords(w)
            /\ \A k \in 1..Len(worker[w].fileInfoList) :
                  worker[w].fileInfoList[k].normPath \notin Range(PathsOf(ScanLines(OwnFile(w))))

\* C7: the workers of one run append to distinct output files, so no two of
\* them ever write the same file.
C7_DistinctOutputFiles ==
    \A v, w \in Workers : v # w => HashFile(DiskOf(v)) # HashFile(DiskOf(w))

\* C8: when every line of a disk's fingerprint file was written by the
\* program (the output directory was empty before the first run and every
\* run completed), no two lines of the file have the same canonical path.
C8_UniquePaths ==
    (prev.fresh /\ halt = "exited") =>
        \A w \in Workers :
            SoleOwner(w) =>
                LET paths == PathsOf(ScanLines(OwnFile(w)))
                IN  \A i, j \in 1..Len(paths) : i # j => paths[i] # paths[j]

\* C9: within one run, the processed byte count and the processed file
\* count that the progress table shows for a disk never decrease.
C9_ProgressNeverDecreases ==
    [][\A k \in DOMAIN progressInfoList \cap DOMAIN progressInfoList' :
          /\ progressInfoList'[k].sizeCount.processed >= progressInfoList[k].sizeCount.processed
          /\ progressInfoList'[k].fileCount.processed >= progressInfoList[k].fileCount.processed]_vars

\* The per-disk files of a group: the names made of the group's letter and
\* one or more digits.
Groups == {<<c>> : c \in Upper}
DiskFilesOf(files, group) ==
    {name \in DOMAIN files :
        /\ Len(name) >= 2
        /\ name[1] = group[1]
        /\ \A i \in 2..Len(name) : name[i] \in Digits}

Count(seq, x) == Cardinality({i \in 1..Len(seq) : seq[i] = x})

RECURSIVE CountIn(_, _, _)
CountIn(files, names, x) ==
    IF names = {} THEN 0
    ELSE LET name == CHOOSE n \in names : TRUE
         IN  Count(ScanLines(files[name]), x) + CountIn(files, names \ {name}, x)

LinesIn(files, names) == UNION {Range(ScanLines(files[name])) : name \in names}

Sorted(lines) == \A i \in 1..(Len(lines) - 1) : StrLeq(lines[i], lines[i + 1])

\* C10 as stated: after the merge, the file of every group that has a
\* per-disk file holds all the lines of the group's per-disk files, each as
\* many times as they hold it, in ascending byte order.
C10_GroupFileHoldsAllLines ==
    halt = "exited" =>
        \A group \in Groups :
            DiskFilesOf(outFiles, group) # {} =>
                /\ group \in DOMAIN outFiles
                /\ Sorted(ScanLines(outFiles[group]))
                /\ \A x \in LinesIn(outFiles, DiskFilesOf(outFiles, group) \cup {group}) :
                      Count(ScanLines(outFiles[group]), x) =
                          CountIn(outFiles, DiskFilesOf(outFiles, group), x)

\* C10, amended: after the merge, the file of every group that has a
\* per-disk file holds the non-empty lines of the group's per-disk files,
\* each as many times as they hold it, in ascending byte order, every line
\* ended by a newline, and no empty line; merging again over the same
\* per-disk files gives the identical group files.
C10_GroupFileHoldsNonEmptyLines ==
    halt = "exited" =>
        /\ \A group \in Groups :
              DiskFilesOf(outFiles, group) # {} =>
                  /\ group \in DOMAIN outFiles
                  /\ outFiles[group] = WriteLines(ScanLines(outFiles[group]))
                  /\ Sorted(ScanLines(outFiles[group]))
                  /\ <<>> \notin Range(ScanLines(outFiles[group]))
                  /\ \A x \in LinesIn(outFiles, DiskFilesOf(outFiles, group) \cup {group}) \ {<<>>} :
                        Count(ScanLines(outFiles[group]), x) =
                            CountIn(outFiles, DiskFilesOf(outFiles, group), x)
        /\ LET again == ReadHashFiles(outFiles, Glob(DOMAIN outFiles), 1, << >>)
           IN  \A group \in DOMAIN again : GroupFile(again[group]) = outFiles[group]

C10_Witness ==
    /\ halt = "exited"
    /\ \E group \in Groups :
          /\ DiskFilesOf(outFiles, group) # {}
          /\ \E name \in DiskFilesOf(outFiles, group) : <<>> \in Range(ScanLines(outFiles[name]))
          /\ \E x \in Range(ScanLines(outFiles[group])) : Count(ScanLines(outFiles[group]), x) = 2
    /\ \E group \in Groups :
          /\ Cardinality(DiskFilesOf(outFiles, group)) = 2
          /\ group \in DOMAIN startFiles
          /\ outFiles[group] # startFiles[group]

\* The number of upper-case letters a text starts with.
LeadingLetters(data) ==
    CHOOSE n \in 0..Len(data) :
        /\ \A i \in 1..n : data[i] \in Upper
        /\ n < Len(data) => data[n + 1] \notin Upper

\* The text starts with one or more upper-case letters followed by a digit.
LettersThenDigit(data) ==
    /\ LeadingLetters(data) >= 1
    /\ LeadingLetters(data) < Len(data)
    /\ data[LeadingLetters(data) + 1] \in Digits

\* The text starts with exactly one upper-case letter followed by a digit.
OneLetterThenDigit(data) == LettersThenDigit(data) /\ LeadingLetters(data) = 1

\* id is what data starts with: one letter and all the digits after it.
IsLetterAndDigitsOf(id, data) ==
    /\ Len(id) >= 2 /\ Len(id) <= Len(data)
    /\ SubSeq(data, 1, Len(id)) = id
    /\ id[1] \in Upper
    /\ \A i \in 2..Len(id) : id[i] \in Digits
    /\ Len(id) < Len(data) => data[Len(id) + 1] \notin Digits

MarkersStarted == mainPc \in {"wait", "integration", "write", "done"}

\* C11 as stated: when every marker file starts with one or more upper-case
\* letters followed by digits, discovery accepts them all.
C11_LetterRunAccepted ==
    (\A r \in 1..Len(env.roots) :
        env.roots[r].marker.exists /\ LettersThenDigit(env.roots[r].marker.data))
        => ~(halt = "fatal" /\ mainPc = "executeHashCalculation")

\* C11, amended: a marker file is accepted exactly when it starts with one
\* upper-case letter directly followed by a digit, and the disk id is that
\* letter with the digits after it; a marker that starts with two or more
\* letters (AB12) is a fatal error. The merge puts the disk's non-empty lines
\* in the file named by the first letter of the id, and creates no file with
\* a longer name.
C11_OneLetterAccepted ==
    /\ (halt = "fatal" /\ mainPc = "executeHashCalculation") =>
          \E r \in 1..Len(env.roots) :
              ~env.roots[r].marker.exists \/ ~OneLetterThenDigit(env.roots[r].marker.data)
    /\ MarkersStarted =>
          /\ Len(diskInfoList) = Len(env.roots)
          /\ \A r \in 1..Len(env.roots) :
                /\ env.roots[r].marker.exists
                /\ OneLetterThenDigit(env.roots[r].marker.data)
                /\ IsLetterAndDigitsOf(diskInfoList[r].id, env.roots[r].marker.data)
    /\ halt = "exited" =>
          /\ \A r \in 1..Len(diskInfoList) :
                LET id == diskInfoList[r].id
                IN  /\ <<id[1]>> \in DOMAIN outFiles
                    /\ \A line \in Range(ScanLines(outFiles[id])) \ {<<>>} :
                          line \in Range(ScanLines(outFiles[<<id[1]>>]))
          /\ \A name \in DOMAIN outFiles \ DOMAIN startFiles :
                Len(name) = 1 \/ \E r \in 1..Len(diskInfoList) : diskInfoList[r].id = name

C11_Witness ==
    /\ halt = "exited"
    /\ Len(diskInfoList) = 2
    /\ diskInfoList[1].id # diskInfoList[2].id
    /\ diskInfoList[1].id[1] = diskInfoList[2].id[1]
    /\ \A r \in 1..2 : outFiles[diskInfoList[r].id] # <<>>

\* Rule lists and paths for filterFile: up to MaxRules rules, each an
\* inclusion or exclusion with one of three patterns.
MaxRules == 2
RulePatterns == {RegexCompile(<<".", "*">>), RegexCompile(<<"a">>), RegexCompile(<<"b">>)}
RuleLists ==
    UNION {[1..n -> [pattern : RulePatterns, inclusion : BOOLEAN]] : n \in 0..MaxRules}
RulePaths == {<<"a">>, <<"b">>, <<"c">>, <<"a", "/", "b">>}

\* The flag of the first rule of fs that matches path, FALSE when none does.
FirstMatchFlag(fs, path) ==
    \E k \in 1..Len(fs) :
        /\ MatchString(fs[k].pattern, path)
        /\ \A j \in 1..(k - 1) : ~MatchString(fs[j].pattern, path)
        /\ fs[k].inclusion

\* The rules of the rule file, in file order: the lines that are neither
\* empty nor comments.
RuleLines == SelectSeq(ScanLines(env.filterConf.data), LAMBDA line : line # <<>> /\ line[1] # "#")

\* C12: filterFile returns the inclusion flag of the first rule, in rule
\* file order, whose pattern matches the canonical path, and FALSE when no
\* rule matches (so with no rule every path is excluded); a walked file that
\* is not in the prior mapping is queued if and only if filterFile returns
\* TRUE for it.
C12_FirstMatchingRuleDecides ==
    /\ mainPc = "initFilters" =>
          \A fs \in RuleLists : \A path \in RulePaths :
              /\ FilterFile(fs, path) = FirstMatchFlag(fs, path)
              /\ fs = <<>> => ~FilterFile(fs, path)
    /\ mainPc \notin {"initEnvs", "initFilters"} =>
          /\ Len(filters) = Len(RuleLines)
          /\ \A k \in 1..Len(filters) : filters[k].inclusion = (RuleLines[k][1] = "+")
    /\ \A w \in Workers :
          Listed(w) =>
              \A k \in 1..Len(WalkedPaths(w)) :
                  WalkedPaths(w)[k] \notin DOMAIN worker[w].hashMap =>
                      ((\E q \in 1..Len(worker[w].fileInfoList) :
                            worker[w].fileInfoList[q].realPath = [rel |-> TreeOf(w)[k].rel, root |-> DiskOf(w).rootPath])
                       <=> FirstMatchFlag(filters, WalkedPaths(w)[k]))

C12_Witness ==
    \E w \in Workers :
        /\ worker[w].pc = "done"
        /\ worker[w].hashMap = << >>
        /\ Len(worker[w].fileInfoList) = 1
        /\ Len(TreeOf(w)) = 2
        /\ Len(filters) = 2
        /\ ~filters[1].inclusion /\ filters[2].inclusion
        /\ MatchString(filters[2].pattern, WalkedPaths(w)[1])

\* The number of colons of a line, and the number of the first line of a
\* file that has not exactly one (0 when every line has one).
ColonCount(line) == Cardinality({i \in 1..Len(line) : line[i] = Colon})

FirstCorrupt(content) ==
    LET lines == ScanLines(content)
        bad == {i \in 1..Len(lines) : ColonCount(lines[i]) # 1}
    IN  IF bad = {} THEN 0 ELSE CHOOSE i \in bad : \A j \in bad : i <= j

SoftFailed(w) ==
    /\ worker[w].pc = "hashed"
    /\ \/ worker[w].err
       \/ worker[w].offset < Len(FileAt(Current(w).realPath).data)

\* C14: after a soft failure on a queued file the worker's next step appends
\* no line, advances its processed files by one and its processed bytes by
\* the file's resolved size, and goes on to the next queued file (or to the
\* final snapshot): it neither ends nor prepares a completion with an error.
C14_SoftFailureRecordsNothing ==
    [][\A w \in DOMAIN worker \cap DOMAIN worker' :
          (SoftFailed(w) /\ worker'[w] # worker[w]) =>
              /\ outFiles' = outFiles
              /\ worker'[w].pc \in {"calcHash", "final"}
              /\ worker'[w].i = worker[w].i + 1
              /\ worker'[w].progressInfo.fileCount.processed =
                    worker[w].progressInfo.fileCount.processed + 1
              /\ \E size \in SizeOf(Current(w)) :
                    worker'[w].progressInfo.sizeCount.processed =
                        worker[w].progressInfo.sizeCount.processed + size]_vars

\* The calls of calcHash a worker has made.
CallsOf(cs, w) == {c \in cs : c[1] = w}

\* The completion messages received from a worker.
CompletionsOf(w) == {i \in 1..Len(received) : received[i].from = w}

\* C15: when the append of a line fails, the worker's next step is to send
\* its completion message with the error; from then on it hashes no file and
\* sends nothing more. Every worker has sent at most one completion message;
\* a worker whose message carries no error has passed all its queued files
\* to calcHash; and when the merge starts the main flow has received exactly
\* one message from every worker.
C15_AppendFailureEndsOneWorker ==
    /\ [](/\ \A w \in Workers :
                /\ Cardinality(CompletionsOf(w)) = (IF worker[w].pc = "done" THEN 1 ELSE 0)
                /\ \A i \in CompletionsOf(w) :
                      ~received[i].err =>
                          CallsOf(calls, w) = {<<w, k>> : k \in 1..Len(worker[w].fileInfoList)}
          /\ mainPc \in {"integration", "write", "done"} => Len(received) = Len(diskInfoList))
    /\ [][\A w \in DOMAIN worker \cap DOMAIN worker' :
            /\ (/\ worker[w].pc = "hashed" /\ ~worker[w].err
                /\ worker'[w] # worker[w] /\ outFiles' = outFiles) =>
                    worker'[w].pc = "failed"
            /\ (worker[w].pc = "failed" /\ worker'[w] # worker[w]) =>
                    /\ worker'[w].pc = "done"
                    /\ received' = Append(received, [diskId |-> DiskOf(w).id, err |-> TRUE, from |-> w])
                    /\ calls' = calls /\ outFiles' = outFiles
            /\ worker[w].pc \in {"failed", "done"} =>
                    /\ CallsOf(calls', w) = CallsOf(calls, w)
                    /\ worker'[w].i = worker[w].i
                    /\ worker'[w].pc \in {"failed", "done"}
                    /\ progressInfoList'[DiskOf(w).index] = progressInfoList[DiskOf(w).index]
            /\ worker[w].pc = "done" => worker'[w] = worker[w]]_vars

C15_Witness ==
    /\ mainPc = "write"
    /\ \E w, v \in Workers :
          /\ \E i \in CompletionsOf(w) : received[i].err
          /\ Cardinality(CallsOf(calls, w)) < Len(worker[w].fileInfoList)
          /\ \E i \in CompletionsOf(v) : ~received[i].err
          /\ worker[v].appended = Len(worker[v].fileInfoList)
          /\ worker[v].appended > 0

\* C16: under weak fairness, once the workers are started the run reaches
\* the end of the merge unless a fatal abort ends it: every worker has sent
\* its completion message and returned, and the main flow has received one
\* message per disk, merged and returned.
C16_EveryRunReachesTheMerge ==
    (mainPc = "wait") ~>
        \/ halt = "fatal"
        \/ /\ halt = "exited" /\ mainPc = "done"
           /\ Len(received) = Len(diskInfoList)
           /\ \A w \in Workers : worker[w].pc = "done"

C16_Witness ==
    /\ halt = "exited" /\ mainPc = "done"
    /\ Len(diskInfoList) = MaxWorkers
    /\ \E i \in 1..Len(received) : received[i].err
    /\ \E w \in Workers : worker[w].appended = 2

\* The configuration of the run is valid: the environment variable is set,
\* the rule file is there and each of its rules has a sign and a pattern
\* that compiles, and every root has a well-formed disk file.
RuleWellFormed(line) ==
    /\ Len(line) >= 2
    /\ line[1] \in {"+", "-"}
    /\ RegexCompile(Tail(line)).ok

ConfigValid ==
    /\ env.home
    /\ env.filterConf.exists
    /\ \A k \in 1..Len(RuleLines) : RuleWellFormed(RuleLines[k])
    /\ \A r \in 1..Len(env.roots) :
          env.roots[r].marker.exists /\ OneLetterThenDigit(env.roots[r].marker.data)

BeforeWorkers == mainPc \in {"initEnvs", "initFilters", "executeHashCalculation"}

\* C17: a worker exists, a fingerprint file differs from what the run found,
\* or a file has been hashed only when the whole configuration is valid; a
\* fatal abort before the workers are started is a configuration error and
\* leaves every fingerprint file as it was, with no worker started and no
\* file hashed; a run with an invalid configuration never returns normally.
C17_ConfigurationCheckedFirst ==
    /\ (Workers # {} \/ outFiles # startFiles \/ calls # {} \/ ~BeforeWorkers) => ConfigValid
    /\ (halt = "fatal" /\ BeforeWorkers) =>
          /\ ~ConfigValid
          /\ outFiles = startFiles /\ calls = {} /\ Workers = {}
    /\ ~ConfigValid => halt # "exited"

C17_Witness ==
    /\ halt = "fatal" /\ mainPc = "executeHashCalculation"
    /\ Len(env.roots) = 2
    /\ env.roots[1].marker.exists /\ OneLetterThenDigit(env.roots[1].marker.data)
    /\ env.roots[2].marker.exists /\ ~OneLetterThenDigit(env.roots[2].marker.data)
    /\ outFiles = startFiles /\ Workers = {}

\* C18: when a worker has sent its final snapshot (it consumed all its
\* queued files and no append failed), the progress table shows for its disk
\* processed files equal to total files and processed bytes equal to total
\* bytes.
C18_FinalSnapshotIsComplete ==
    \A w \in Workers :
        worker[w].pc = "complete" =>
            LET last == progressInfoList[DiskOf(w).index]
            IN  /\ last.fileCount.processed = last.fileCount.total
                /\ last.sizeCount.processed = last.sizeCount.total

\* The worker has rewritten its file and is hashing, or has finished.
Rewritten(w) == Listed(w) /\ worker[w].pc \notin {"writeFileOpen", "writeFileWrite"}

\* line is a fingerprint line of the canonical path normPath: the path, a
\* colon and the two hex digits of a one-byte digest.
LineIsFor(line, normPath) ==
    /\ Len(line) = Len(normPath) + 3
    /\ SubSeq(line, 1, Len(normPath)) = normPath
    /\ line[Len(normPath) + 1] = Colon

\* lines are lines of queued files, in the order of the queue.
RECURSIVE InQueueOrder(_, _)
InQueueOrder(lines, queued) ==
    IF lines = <<>> THEN TRUE
    ELSE IF queued = <<>> THEN FALSE
    ELSE IF LineIsFor(Head(lines), Head(queued).normPath)
         THEN InQueueOrder(Tail(lines), Tail(queued))
         ELSE InQueueOrder(lines, Tail(queued))

IsPrefix(a, b) == Len(a) <= Len(b) /\ SubSeq(b, 1, Len(a)) = a

\* C19: from the rewrite on, a disk's fingerprint file is the carry-forward
\* lines followed by the lines the worker has appended, which are lines of
\* queued files already passed to calcHash, in queue (walk) order; and
\* every step leaves the content the file had as a prefix of the new one.
C19_CarriedThenAppendedInOrder ==
    /\ [](\A w \in Workers :
            Rewritten(w) =>
                LET lines == ScanLines(OwnFile(w))
                    carried == ScanLines(worker[w].trimmedHashs)
                IN  /\ Len(lines) = Len(carried) + worker[w].appended
                    /\ SubSeq(lines, 1, Len(carried)) = carried
                    /\ InQueueOrder(SubSeq(lines, Len(carried) + 1, Len(lines)),
                                    SubSeq(worker[w].fileInfoList, 1, worker[w].i - 1)))
    /\ [][\A w \in DOMAIN worker \cap DOMAIN worker' :
            (Rewritten(w) /\ HashFile(DiskOf(w)) \in DOMAIN outFiles') =>
                IsPrefix(OwnFile(w), outFiles'[HashFile(DiskOf(w))])]_vars

\* C20: every fingerprint file that only this program has written (the
\* output directory was empty before the first run and every run completed)
\* is accepted by makeHashMap on the next run: each of its lines splits into
\* a path and a digest, the run is not ended by the corruption abort, and
\* every walked file that has a line in the file is found in the mapping
\* under its canonical path.
C20_WrittenLinesAreReadBack ==
    prev.fresh =>
        /\ ~(halt = "fatal" /\ mainPc = "wait")
        /\ \A w \in Workers :
              /\ FirstCorrupt(OwnFileAtStart(w)) = 0
              /\ (SoleOwner(w) /\ Listed(w)) =>
                    \A k \in 1..Len(WalkedPaths(w)) :
                        (\E line \in Range(ScanLines(OwnFileAtStart(w))) :
                              LineIsFor(line, WalkedPaths(w)[k]))
                            => WalkedPaths(w)[k] \in DOMAIN worker[w].hashMap

====
